---- MODULE Spec2Model ----
(***************************************************************************)
(* AgriSmart statistics and trend-analysis layer.                          *)
(*                                                                         *)
(*   src/app/api/district-stats/route.ts   GET (district statistics) and   *)
(*                                          GET (market prices)            *)
(*   src/scripts/V2_create_fresh_database.sql  calculate_soil_health_score *)
(*                                                                         *)
(* Numbers.  Prices and measures are naturals.  JavaScript computes the    *)
(* percent change and the averages in IEEE doubles; the model computes     *)
(* them as exact rationals (numerator over a positive denominator), and    *)
(* rounds exactly as Number.prototype.toFixed and Math.round round an      *)
(* exact value.  A quotient that is reported unrounded is kept as the      *)
(* pair [num, den].  On the prices of the model the doubles give the same  *)
(* labels, tenths and amounts as the exact values; in general a double can *)
(* fall on the other side of an exact decimal tie (x.x5), never of the 2   *)
(* percent threshold for integer prices.                                   *)
(*                                                                         *)
(* Absent values.  A numeric column that is null or not selected is        *)
(* NoNum; a text column that is null or not selected is NoText.            *)
(***************************************************************************)
EXTENDS Integers, Sequences, FiniteSets, TLC

VARIABLES
    market_prices,        \* rows of market_prices, in the order .order("date", desc) returns them
    pricesData,           \* what the repository answered to the last market price query
    marketResponse,       \* the response of the last market price query
    district_statistics,  \* rows of district_statistics, in the order the query returns them
    statsData,            \* what the repository answered to the last district statistics query
    districtResponse,     \* the response of the last district statistics query
    soil_sample,          \* the arguments of the last calculate_soil_health_score call
    soil_score,           \* its result
    crop_cycles,          \* rows of crop_cycles
    cycleResult,          \* what the database answered to the last statement on crop_cycles
    seedPayload,          \* the records the last run of seedDistrictStats parsed from its file
    seedOutcome,          \* how that run ended: exit code and message
    farmer_profiles,      \* rows of farmer_profiles
    profileRequest,       \* the profile request in progress: its inputs and how far it is
    profileResponse,      \* the response of the profile request
    fields,               \* rows of fields
    fieldResult,          \* what the database answered to the last statement on fields
    requests,             \* the query requests in flight: the locals of each handler call
    database,             \* the objects and seed rows of the database the schema script runs on
    scriptRuns,           \* how many times the schema script has been run
    scriptResult          \* how its last run ended

vars == <<market_prices, pricesData, marketResponse,
          district_statistics, statsData, districtResponse,
          soil_sample, soil_score,
          crop_cycles, cycleResult, seedPayload, seedOutcome,
          farmer_profiles, profileRequest, profileResponse, fields, fieldResult,
          requests, database, scriptRuns, scriptResult>>

marketVars == <<market_prices, pricesData, marketResponse>>
districtVars == <<district_statistics, statsData, districtResponse>>
soilVars == <<soil_sample, soil_score>>
cycleVars == <<crop_cycles, cycleResult>>
\* the state the query handlers and the score function never touch
seedVars == <<seedPayload, seedOutcome>>
profileVars == <<farmer_profiles, profileRequest, profileResponse>>
fieldVars == <<fields, fieldResult>>
schemaVars == <<database, scriptRuns, scriptResult>>
storeVars == <<cycleVars, seedVars, profileVars, fieldVars, schemaVars>>

-----------------------------------------------------------------------------
(* Bounds of the model *)

MaxTrendRows == 2       \* rows of market_prices when the prices vary over every fallback
MaxSeriesRows == 3      \* rows of market_prices when the series keys vary
MaxStatRows == 2        \* rows of district_statistics
MaxCycles == 2          \* rows of crop_cycles
MaxBatch == 2           \* records of the file seedDistrictStats reads
MaxRequests == 2        \* calls of the query handlers that run side by side
MaxRuns == 2            \* runs of the schema script

-----------------------------------------------------------------------------
(* JavaScript values *)

NoNum == 0 - 1           \* null / undefined where a number is expected
NoText == "<absent>"     \* null / undefined where a text is expected
NaN == 0 - 2             \* the result of arithmetic on undefined

\* a repository answer { data, error }: an error with data null, or no error
\* with data null or an array of rows
FailedRead == [error |-> TRUE, isNull |-> TRUE, rows |-> <<>>]
NullData == [error |-> FALSE, isNull |-> TRUE, rows |-> <<>>]
RowsData(rows) == [error |-> FALSE, isNull |-> FALSE, rows |-> rows]

\* x || y on numbers: 0, null, undefined are falsy
Truthy(x) == x # NoNum /\ x # 0

\* Math.round(a / b), b > 0: the nearest integer, a tie going up
MathRound(a, b) == (2 * a + b) \div (2 * b)

\* Number.parseFloat((a / b).toFixed(1)) in tenths, b > 0: the nearest tenth,
\* a tie going away from zero (toFixed formats the magnitude, then the sign)
ToFixed1(a, b) ==
    LET mag == IF a < 0 THEN 0 - a ELSE a
        n == (20 * mag + b) \div (2 * b)
    IN  IF a < 0 THEN 0 - n ELSE n

-----------------------------------------------------------------------------
(* The market price query: GET (market prices), route.ts lines 76-175 *)

DefaultMarketLimit == 50

\* value ILIKE '%pat%' over the texts of the model: the lower-cased infixes of
\* each stored text that a request of the model can ask for
LowerInfixes(value) ==
    CASE value = "rice" -> {"ric", "e"}
      [] value = "wheat" -> {"e"}
      [] value = "MH" -> {"mh"}
      [] OTHER -> {}

ILike(value, pat) == value # NoText /\ pat \in LowerInfixes(value)

Take(seq, n) == SubSeq(seq, 1, IF n < Len(seq) THEN n ELSE Len(seq))

\* parseInt(searchParams.get("limit") || "50")
MarketLimit(limitParam) == IF limitParam = NoNum THEN DefaultMarketLimit ELSE limitParam

\* the rows the repository returns: order by date desc, the optional filters, limit
MarketQuery(rows, crop, state, limit) ==
    LET keep(r) == /\ (crop # NoText => ILike(r.crop_name, crop))
                   /\ (state # NoText => ILike(r.state, state))
    IN  Take(SelectSeq(rows, keep), limit)

PriceOfOrOne(p) ==
    IF Truthy(p.modal_price) THEN p.modal_price
    ELSE IF Truthy(p.max_price) THEN p.max_price
    ELSE IF Truthy(p.min_price) THEN p.min_price
    ELSE 1

\* p.modal_price || p.max_price || p.min_price || 0
PriceOf(p) ==
    IF Truthy(p.modal_price) THEN p.modal_price
    ELSE IF Truthy(p.max_price) THEN p.max_price
    ELSE IF Truthy(p.min_price) THEN p.min_price
    ELSE 0

\* price.modal_price || price.max_price || 0
AmountBase(p) ==
    IF Truthy(p.modal_price) THEN p.modal_price
    ELSE IF Truthy(p.max_price) THEN p.max_price
    ELSE 0

\* p.crop_name === price.crop_name || p.commodity === price.commodity
\* (null === null and undefined === undefined are true)
SameCrop(p, price) == p.crop_name = price.crop_name \/ p.commodity = price.commodity

\* array.slice(index + 1).find(...): the position of the first later match, 0 if none
RECURSIVE FindFrom(_, _, _)
FindFrom(array, price, j) ==
    IF j > Len(array) THEN 0
    ELSE IF SameCrop(array[j], price) THEN j
    ELSE FindFrom(array, price, j + 1)

previousPrice(array, index) == FindFrom(array, array[index], index + 1)

\* changePercent > 2 ? "up" : changePercent < -2 ? "down" : "stable",
\* changePercent = num / den with den > 0
TrendOnRounded(num, den) ==
    IF ToFixed1(num, den) > 20 THEN "up"
    ELSE IF ToFixed1(num, den) < 0 - 20 THEN "down"
    ELSE "stable"

Trend(num, den) ==
    IF num > 2 * den THEN "up"
    ELSE IF num < 0 - 2 * den THEN "down"
    ELSE "stable"

\* the callback of pricesData.map: the row with trend, change_percent (in tenths
\* of a percent) and change_amount
Annotate(array, index) ==
    LET price == array[index]
        prev == previousPrice(array, index)
        currentPrice == PriceOf(price)
        prevPrice == IF prev # 0 THEN PriceOf(array[prev]) ELSE 0
        changed == prev # 0 /\ prevPrice > 0
        \* changePercent = num / den
        num == IF changed THEN (currentPrice - prevPrice) * 100 ELSE 0
        den == IF changed THEN prevPrice ELSE 1
    IN  [crop_name |-> price.crop_name,
         commodity |-> price.commodity,
         state |-> price.state,
         modal_price |-> price.modal_price,
         max_price |-> price.max_price,
         min_price |-> price.min_price,
         price_per_quintal |-> price.price_per_quintal,
         trend |-> IF changed THEN Trend(num, den) ELSE "stable",
         change_percent |-> ToFixed1(num, den),
         change_amount |-> MathRound(AmountBase(price) * num, 100 * den)]

\* pricesData?.map(...) || []
processedPrices(data) ==
    IF data.isNull THEN <<>> ELSE [i \in 1..Len(data.rows) |-> Annotate(data.rows, i)]

\* ---- groupedPrices: a plain object used as a map ----
\* A JavaScript object lists its own keys with the canonical array indices first,
\* in ascending numeric order, then the other strings in insertion order; a key
\* it does not own is looked up on Object.prototype.

\* the property key of a crop name: String(cropName)
ToPropertyKey(cropName) == IF cropName = NoText THEN "undefined" ELSE cropName

\* the texts of the model that are canonical array indices, with their values
ArrayIndexKeys == {"2", "10"}
IndexValue(key) == CASE key = "2" -> 2 [] key = "10" -> 10 [] OTHER -> 0

\* the texts of the model that name a property of Object.prototype
PrototypeKeys == {"constructor"}

\* the own keys after key is added: OrdinaryOwnPropertyKeys order
RECURSIVE InsertKey(_, _)
InsertKey(keys, key) ==
    IF key \notin ArrayIndexKeys THEN Append(keys, key)
    ELSE IF keys = <<>> THEN <<key>>
    ELSE IF Head(keys) \in ArrayIndexKeys /\ IndexValue(Head(keys)) < IndexValue(key)
         THEN <<Head(keys)>> \o InsertKey(Tail(keys), key)
    ELSE <<key>> \o keys

EmptyObject == [keys |-> <<>>, vals |-> <<>>, threw |-> FALSE]

\* position of key among the own keys, 0 if it is not an own key
RECURSIVE KeyIndex(_, _, _)
KeyIndex(keys, key, i) ==
    IF i > Len(keys) THEN 0
    ELSE IF keys[i] = key THEN i
    ELSE KeyIndex(keys, key, i + 1)

\* the reducer: if (!acc[cropName]) acc[cropName] = []; acc[cropName].push(price)
\* vals[i] is the array stored under keys[i]
GroupStep(acc, price) ==
    LET key == ToPropertyKey(price.crop_name)
        own == KeyIndex(acc.keys, key, 1)
    IN  IF acc.threw THEN acc
        ELSE IF own # 0
             THEN [acc EXCEPT !.vals[own] = Append(@, price)]
        ELSE IF key \in PrototypeKeys
             \* acc[key] is the inherited member: truthy, and it has no push
             THEN [acc EXCEPT !.threw = TRUE]
        ELSE LET keys2 == InsertKey(acc.keys, key)
                 at == KeyIndex(keys2, key, 1)
             IN  [acc EXCEPT
                    !.keys = keys2,
                    !.vals = [i \in 1..Len(keys2) |->
                                IF i < at THEN acc.vals[i]
                                ELSE IF i = at THEN <<price>>
                                ELSE acc.vals[i - 1]]]

RECURSIVE GroupFrom(_, _, _)
GroupFrom(acc, processed, i) ==
    IF i > Len(processed) THEN acc
    ELSE GroupFrom(GroupStep(acc, processed[i]), processed, i + 1)

\* processedPrices.reduce(..., {})
groupedPrices(processed) == GroupFrom(EmptyObject, processed, 1)

\* ---- marketStats ----
CountNotStable(processed, t) ==
    Cardinality({i \in 1..Len(processed) : processed[i].trend # "stable"})

CountTrend(processed, t) == Cardinality({i \in 1..Len(processed) : processed[i].trend = t})

\* sum + p.price_per_quintal over the records: NaN once a value is undefined
RECURSIVE SumPerQuintal(_, _, _)
SumPerQuintal(processed, i, sum) ==
    IF i > Len(processed) THEN sum
    ELSE IF sum = NaN \/ processed[i].price_per_quintal = NoNum THEN NaN
    ELSE SumPerQuintal(processed, i + 1, sum + processed[i].price_per_quintal)

PerQuintal(processed) == {processed[i].price_per_quintal : i \in 1..Len(processed)}

\* Math.max(...values) / Math.min(...values) of a non-empty list
MathMax(values) == IF NoNum \in values THEN NaN ELSE CHOOSE v \in values : \A w \in values : w <= v
MathMin(values) == IF NoNum \in values THEN NaN ELSE CHOOSE v \in values : \A w \in values : v <= w

MarketStatsUnguarded(processed, grouped) ==
    LET n == Len(processed)
        sum == SumPerQuintal(processed, 1, 0)
    IN  [total_crops |-> Len(grouped.keys),
         price_increases |-> CountTrend(processed, "up"),
         price_decreases |-> CountTrend(processed, "down"),
         \* 0 / 0, Math.max() and Math.min() of nothing are not numbers a client can use
         avg_price |-> IF n > 0 /\ sum # NaN THEN MathRound(sum, n) ELSE NaN,
         highest_price |-> IF n > 0 THEN MathMax(PerQuintal(processed)) ELSE NaN,
         lowest_price |-> IF n > 0 THEN MathMin(PerQuintal(processed)) ELSE NaN]

marketStats(processed, grouped) ==
    LET n == Len(processed)
        sum == SumPerQuintal(processed, 1, 0)
    IN  [total_crops |-> Len(grouped.keys),
         price_increases |-> CountTrend(processed, "up"),
         price_decreases |-> CountTrend(processed, "down"),
         avg_price |-> IF n > 0 THEN (IF sum = NaN THEN NaN ELSE MathRound(sum, n)) ELSE 0,
         highest_price |-> IF n > 0 THEN MathMax(PerQuintal(processed)) ELSE 0,
         lowest_price |-> IF n > 0 THEN MathMin(PerQuintal(processed)) ELSE 0]

\* ---- the responses ----
NoResponse == [status |-> 0]
ErrorResponse(message) == [status |-> 500, error |-> message]

MarketSuccess(data, crop, state, limit) ==
    LET processed == processedPrices(data)
        grouped == groupedPrices(processed)
    IN  IF grouped.threw
        \* the TypeError is caught by the handler's catch
        THEN ErrorResponse("Internal server error")
        ELSE [status |-> 200,
              success |-> TRUE,
              prices |-> processed,
              grouped_prices |-> [keys |-> grouped.keys, vals |-> grouped.vals],
              market_stats |-> marketStats(processed, grouped),
              filters |-> [crop |-> crop, state |-> state, limit |-> limit],
              source |-> "database"]

\* One request.  answer is what the repository does with the single read:
\* "error", "null" (no error, data null) or "rows".
MarketGET(crop, state, limitParam, answer) ==
    LET limit == MarketLimit(limitParam)
        data == IF answer = "rows"
                THEN RowsData(MarketQuery(market_prices, crop, state, limit))
                ELSE IF answer = "null" THEN NullData
                ELSE FailedRead
    IN  /\ marketResponse = NoResponse      \* the behaviour follows one request
        /\ pricesData' = data
        /\ marketResponse' = IF data.error
                             THEN ErrorResponse("Failed to fetch market prices")
                             ELSE MarketSuccess(data, crop, state, limit)
        /\ UNCHANGED <<market_prices, districtVars, soilVars, storeVars, requests>>

-----------------------------------------------------------------------------
(* The regional statistics query: GET (district stats), route.ts lines 4-69 *)

DefaultStatsLimit == 100

\* parseInt(year) over the year parameters of the model; NaN when it is no number
ParseYear(year) == CASE year = "2024" -> 2024 [] year = "2023" -> 2023 [] OTHER -> NaN

LowerInfixesStat(value) ==
    CASE value = "Pune" -> {"pun"}
      [] value = "Haveli" -> {"hav"}
      [] value = "Rice" -> {"ric"}
      [] OTHER -> {}

ILikeStat(value, pat) == value # NoText /\ pat \in LowerInfixesStat(value)

StatsLimit(limitParam) == IF limitParam = NoNum THEN DefaultStatsLimit ELSE limitParam

\* order by recorded_year desc, district asc; the optional filters; limit
StatsQuery(rows, district, taluka, crop, year, limit) ==
    LET keep(r) == /\ (district # NoText => ILikeStat(r.district, district))
                   /\ (taluka # NoText => ILikeStat(r.taluka, taluka))
                   /\ (crop # NoText => ILikeStat(r.crop, crop))
                   /\ (year # NoText /\ ParseYear(year) # NaN
                         => r.recorded_year = ParseYear(year))
    IN  Take(SelectSeq(rows, keep), limit)

\* Number(v) || 0
NumberOrZero(v) == IF v = NoNum THEN 0 ELSE v

Measure(r, field) ==
    CASE field = "area_ha" -> r.area_ha
      [] field = "production_mt" -> r.production_mt
      [] field = "yield_mt_per_ha" -> r.yield_mt_per_ha
      [] field = "rainfall_mm" -> r.rainfall_mm
      [] field = "irrigation_coverage_percent" -> r.irrigation_coverage_percent

\* data.reduce((sum, r) => sum + (Number(r[field]) || 0), 0)
RECURSIVE SumField(_, _, _, _)
SumField(rows, field, i, sum) ==
    IF i > Len(rows) THEN sum
    ELSE SumField(rows, field, i + 1, sum + NumberOrZero(Measure(rows[i], field)))

\* the number of rows on which the field is present
PresentCount(rows, field) == Cardinality({i \in 1..Len(rows) : Measure(rows[i], field) # NoNum})

\* a quotient the response reports unrounded
Quotient(num, den) == [num |-> num, den |-> den]

AveragePresent(rows, field) ==
    IF PresentCount(rows, field) > 0
    THEN Quotient(SumField(rows, field, 1, 0), PresentCount(rows, field))
    ELSE Quotient(0, 1)

\* data.length > 0 ? data.reduce(...) / data.length : 0
Average(rows, field) ==
    IF Len(rows) > 0 THEN Quotient(SumField(rows, field, 1, 0), Len(rows)) ELSE Quotient(0, 1)

NullAggregates == [isNull |-> TRUE]

AggregatesNullWhenEmpty(data) ==
    IF data.isNull \/ Len(data.rows) = 0 THEN NullAggregates
    ELSE [isNull |-> FALSE,
          totalArea |-> SumField(data.rows, "area_ha", 1, 0),
          totalProduction |-> SumField(data.rows, "production_mt", 1, 0),
          avgYield |-> Average(data.rows, "yield_mt_per_ha"),
          avgRainfall |-> Average(data.rows, "rainfall_mm"),
          avgIrrigationCoverage |-> Average(data.rows, "irrigation_coverage_percent")]

\* const aggregates = data ? {...} : null   (an empty array is truthy)
aggregates(data) ==
    IF data.isNull THEN NullAggregates
    ELSE [isNull |-> FALSE,
          totalArea |-> SumField(data.rows, "area_ha", 1, 0),
          totalProduction |-> SumField(data.rows, "production_mt", 1, 0),
          avgYield |-> Average(data.rows, "yield_mt_per_ha"),
          avgRainfall |-> Average(data.rows, "rainfall_mm"),
          avgIrrigationCoverage |-> Average(data.rows, "irrigation_coverage_percent")]

\* stats: data, aggregates, count: data?.length || 0
StatsSuccess(data) ==
    [status |-> 200,
     success |-> TRUE,
     stats |-> data,
     aggregates |-> aggregates(data),
     count |-> IF data.isNull THEN 0 ELSE Len(data.rows)]

DistrictGET(district, taluka, crop, year, limitParam, answer) ==
    LET data == IF answer = "rows"
                THEN RowsData(StatsQuery(district_statistics, district, taluka, crop,
                                         year, StatsLimit(limitParam)))
                ELSE IF answer = "null" THEN NullData
                ELSE FailedRead
    IN  /\ districtResponse = NoResponse    \* the behaviour follows one request
        /\ statsData' = data
        /\ districtResponse' = IF data.error
                               THEN ErrorResponse("Failed to fetch district statistics")
                               ELSE StatsSuccess(data)
        /\ UNCHANGED <<district_statistics, marketVars, soilVars, storeVars, requests>>

-----------------------------------------------------------------------------
(* calculate_soil_health_score, V2_create_fresh_database.sql lines 76-88.   *)
(* pH and organic matter are in tenths; a NULL argument is NoNum, and a     *)
(* comparison with NULL is not true, so the ELSE branch is taken.           *)

Between(v, lo, hi) == v # NoNum /\ v >= lo /\ v <= hi
AtLeast(v, lo) == v # NoNum /\ v >= lo

\* LEAST(a, b, c)
Least(a, b, c) == CHOOSE m \in {a, b, c} : \A x \in {a, b, c} : m <= x

NutrientAverage(nitrogen, phosphorus, potassium) ==
    ( (IF Between(nitrogen, 200, 400) THEN 20 ELSE 10)
    + (IF Between(phosphorus, 20, 60) THEN 20 ELSE 10)
    + (IF Between(potassium, 150, 300) THEN 20 ELSE 10) ) \div 3

NutrientScore(nitrogen, phosphorus, potassium) ==
    Least(IF Between(nitrogen, 200, 400) THEN 20 ELSE 10,
          IF Between(phosphorus, 20, 60) THEN 20 ELSE 10,
          IF Between(potassium, 150, 300) THEN 20 ELSE 10)

calculate_soil_health_score(ph, nitrogen, phosphorus, potassium, organic_matter) ==
    LET ph_score == IF Between(ph, 60, 75) THEN 40 ELSE 10
        nutrient_score == NutrientScore(nitrogen, phosphorus, potassium)
        organic_score == IF AtLeast(organic_matter, 20) THEN 20
                         ELSE IF AtLeast(organic_matter, 10) THEN 15
                         ELSE 5
    IN  ph_score + nutrient_score + organic_score

\* a SoilSample: the four readings and the optional organic matter
SoilSample(ph, nitrogen, phosphorus, potassium, organic_matter) ==
    [scored |-> FALSE, ph |-> ph, nitrogen |-> nitrogen, phosphorus |-> phosphorus,
     potassium |-> potassium, organic_matter |-> organic_matter]

\* SELECT calculate_soil_health_score(...) on the sample
ScoreSoil ==
    /\ ~soil_sample.scored
    /\ soil_sample' = [soil_sample EXCEPT !.scored = TRUE]
    /\ soil_score' = calculate_soil_health_score(soil_sample.ph, soil_sample.nitrogen,
                          soil_sample.phosphorus, soil_sample.potassium,
                          soil_sample.organic_matter)
    /\ UNCHANGED <<marketVars, districtVars, storeVars, requests>>

-----------------------------------------------------------------------------
(* crop_cycles: src/scripts/V2_create_fresh_database.sql.  A DATE is the     *)
(* number of its day; a null date is NoNum.                                  *)

HarvestDays == 120       \* INTERVAL '120 days'

\* date + interval: the timestamp at midnight of the date, moved by the days
DatePlusInterval(date, days) == [day |-> date + days, seconds |-> 0]

\* the assignment cast of a timestamp to DATE drops the time of day
CastToDate(timestamp) == timestamp.day

\* expected_harvest_date DATE GENERATED ALWAYS AS (planting_date + INTERVAL
\* '120 days') STORED: computed from the row on every insert and every update
HarvestDateSetOnce(row) ==
    IF row.expected_harvest_date = NoNum
    THEN [row EXCEPT !.expected_harvest_date =
                         CastToDate(DatePlusInterval(row.planting_date, HarvestDays))]
    ELSE row
GeneratedColumns(row) ==
    [row EXCEPT !.expected_harvest_date =
                    CastToDate(DatePlusInterval(row.planting_date, HarvestDays))]

\* a column an UPDATE does not assign, a column an INSERT does not list
Keep == 0 - 3
KeepText == "<keep>"

\* status crop_status_enum DEFAULT 'planning'
CycleRow(planting_date) ==
    [crop_name |-> "Rice", planting_date |-> planting_date,
     expected_harvest_date |-> NoNum, status |-> "planning"]

SqlAnswer(op, harvest_given, ok, rows) ==
    [op |-> op, harvest_given |-> harvest_given, ok |-> ok, rows |-> rows]

\* INSERT INTO crop_cycles (field_id, crop_name, planting_date [, expected_harvest_date]).
\* A value for the generated column is an error, and so is a null planting_date.
InsertCycle(planting_date, expected_harvest_date) ==
    LET given == expected_harvest_date # Keep
        ok == ~given /\ planting_date # NoNum
    IN  /\ ok => Len(crop_cycles) < MaxCycles
        /\ crop_cycles' = IF ok
                          THEN Append(crop_cycles, GeneratedColumns(CycleRow(planting_date)))
                          ELSE crop_cycles
        /\ cycleResult' = SqlAnswer("insert", given, ok, <<>>)
        /\ UNCHANGED <<marketVars, districtVars, soilVars, seedVars, profileVars, fieldVars,
                       requests, schemaVars>>

\* UPDATE crop_cycles SET ... WHERE id = the id of row i.  The statement assigns
\* the columns that are not Keep; it is rejected as a whole when it assigns the
\* generated column or a null planting_date.
UpdateCycle(i, planting_date, status, expected_harvest_date) ==
    LET given == expected_harvest_date # Keep
        ok == ~given /\ planting_date # NoNum
        old == crop_cycles[i]
        assigned == [old EXCEPT
                        !.planting_date = IF planting_date = Keep THEN @ ELSE planting_date,
                        !.status = IF status = KeepText THEN @ ELSE status]
    IN  /\ i \in DOMAIN crop_cycles
        /\ crop_cycles' = IF ok
                          THEN [crop_cycles EXCEPT ![i] = GeneratedColumns(assigned)]
                          ELSE crop_cycles
        /\ cycleResult' = SqlAnswer("update", given, ok, <<>>)
        /\ UNCHANGED <<marketVars, districtVars, soilVars, seedVars, profileVars, fieldVars,
                       requests, schemaVars>>

\* SELECT * FROM crop_cycles: the stored column is read, nothing is written
SelectCycles ==
    /\ cycleResult' = SqlAnswer("select", FALSE, TRUE, crop_cycles)
    /\ UNCHANGED <<crop_cycles, marketVars, districtVars, soilVars, seedVars, profileVars,
                   fieldVars, requests, schemaVars>>

-----------------------------------------------------------------------------
(* seedDistrictStats: src/scripts/seed_district_stats.ts, writing the table  *)
(* district_statistics of src/scripts/run_all_migrations.sql                 *)

\* the object the script builds from one record of the file (lines 43-58); a
\* field the record lacks is undefined, and is stored as null
SeedRow(record) ==
    [state |-> "Maharashtra", district |-> record.district, taluka |-> record.taluka,
     crop |-> record.crop, recorded_year |-> record.recorded_year,
     area_ha |-> record.area_ha, production_mt |-> record.production_mt,
     yield_mt_per_ha |-> record.yield_mt_per_ha, rainfall_mm |-> record.rainfall_mm,
     irrigation_coverage_percent |-> record.irrigation_coverage_percent]

SeedRows(payload) == [i \in DOMAIN payload |-> SeedRow(payload[i])]

\* the constraints district_statistics declares on the columns the script
\* writes: district text not null.  The numeric columns carry no CHECK.
TableAccepts(row) == row.district # NoText

\* the one INSERT statement of upsert(rows): every row is stored, or, when a row
\* violates a constraint, none is
UpsertStatistics(stored, rows) ==
    IF \A i \in DOMAIN rows : TableAccepts(rows[i])
    THEN [error |-> FALSE, stored |-> stored \o rows]
    ELSE [error |-> TRUE, stored |-> stored]

Exit(code, message) == [ran |-> TRUE, code |-> code, message |-> message]
NotRun == [ran |-> FALSE, code |-> 0, message |-> ""]

\* One run of the script.  file is "unreadable" when readFileSync or JSON.parse
\* throws, credentials is FALSE when the environment lacks the URL or the key,
\* reachable is FALSE when the request to the repository fails.
seedDistrictStats(file, payload, credentials, reachable) ==
    LET written == UpsertStatistics(district_statistics, SeedRows(payload))
        thrown == file = "unreadable" \/ ~credentials
        error == ~reachable \/ written.error
    IN  /\ ~seedOutcome.ran                 \* the behaviour follows one run
        /\ file = "unreadable" => payload = <<>>
        /\ seedPayload' = payload
        /\ district_statistics' = IF thrown \/ error THEN district_statistics
                                  ELSE written.stored
        /\ seedOutcome' = IF file = "unreadable" THEN Exit(1, "thrown reading the file")
                          ELSE IF ~credentials THEN Exit(1, "Supabase credentials missing")
                          ELSE IF error THEN Exit(1, "Failed to seed district statistics")
                          ELSE Exit(0, "Seeded")
        /\ UNCHANGED <<marketVars, statsData, districtResponse, soilVars, cycleVars,
                       profileVars, fieldVars, requests, schemaVars>>

-----------------------------------------------------------------------------
(* Calls of the two query handlers of src/app/api/district-stats/route.ts    *)
(* that run side by side.  A call runs alone between two awaits; the awaits  *)
(* are createClient() and the query, so a call has three steps.  All that a  *)
(* call keeps is in its own locals.                                          *)

Requests == 1..MaxRequests

IdleRequest ==
    [kind |-> "none", filter |-> NoText, limitParam |-> NoNum, pc |-> "idle",
     reads |-> 0, writes |-> 0, answer |-> "none", response |-> NoResponse]

\* the locals a call reads after an await are its own: searchParams, query, limit
SharedLocals(reqs, r) == reqs[1]
LocalsOf(reqs, r) == reqs[r]

\* what { data, error } of the awaited query is, for the filters of the call
QueryData(kind, filter, limitParam, answer) ==
    IF answer = "rows"
    THEN RowsData(IF kind = "market"
                  THEN MarketQuery(market_prices, filter, NoText, MarketLimit(limitParam))
                  ELSE StatsQuery(district_statistics, filter, NoText, NoText, NoText,
                                  StatsLimit(limitParam)))
    ELSE IF answer = "null" THEN NullData
    ELSE FailedRead

\* the rest of the handler once the query has answered
QueryResponse(kind, filter, limitParam, data) ==
    IF kind = "market"
    THEN IF data.error THEN ErrorResponse("Failed to fetch market prices")
         ELSE MarketSuccess(data, filter, NoText, MarketLimit(limitParam))
    ELSE IF data.error THEN ErrorResponse("Failed to fetch district statistics")
         ELSE StatsSuccess(data)

\* where a call goes once it has the answer: it returns, whatever the answer
RetryOnce(error, reads) == IF error /\ reads < 2 THEN "client" ELSE "done"
AfterRead(error, reads) == "done"

\* the handler is entered and runs up to await createClient()
EnterRequest(r, kind, filter, limitParam) ==
    /\ requests[r].pc = "idle"
    /\ requests' = [requests EXCEPT ![r] = [IdleRequest EXCEPT !.kind = kind,
                        !.filter = filter, !.limitParam = limitParam, !.pc = "client"]]
    /\ UNCHANGED <<marketVars, districtVars, soilVars, storeVars>>

\* the query is built and sent: await query
SendQuery(r) ==
    /\ requests[r].pc = "client"
    /\ requests' = [requests EXCEPT ![r].pc = "reading", ![r].reads = @ + 1]
    /\ UNCHANGED <<marketVars, districtVars, soilVars, storeVars>>

\* the repository answers and the handler runs to its return
AnswerQuery(r, answer) ==
    LET mine == LocalsOf(requests, r)
        data == QueryData(mine.kind, mine.filter, mine.limitParam, answer)
        next == AfterRead(data.error, requests[r].reads)
    IN  /\ requests[r].pc = "reading"
        /\ requests' = [requests EXCEPT
                ![r].pc = next,
                ![r].answer = answer,
                ![r].response = IF next = "done"
                                THEN QueryResponse(mine.kind, mine.filter, mine.limitParam, data)
                                ELSE NoResponse]
        /\ UNCHANGED <<marketVars, districtVars, soilVars, storeVars>>

-----------------------------------------------------------------------------
(* The schema script src/scripts/V2_create_fresh_database.sql.  The database *)
(* is the set of its objects; an index, a policy, a trigger or a row is an   *)
(* object on its table and goes when the table is dropped.                   *)

Object(kind, name, on) == [kind |-> kind, name |-> name, on |-> on]
Objects(kind, names) == {Object(kind, name, NoText) : name \in names}
ObjectsOn(kind, tables) == {Object(kind, table, table) : table \in tables}

Statement(op, objects) == [op |-> op, objects |-> objects, parses |-> TRUE]

\* line 210: 'A staple food for a large part of the world's human population.'
\* ends the literal at world, and the statement is a syntax error
SeedStatement ==
    [op |-> "insert",
     objects |-> {Object("row", "Wheat", "encyclopedia"), Object("row", "Rice", "encyclopedia")},
     parses |-> FALSE]

V2Tables == {"farmer_profiles", "fields", "crop_cycles", "market_prices", "encyclopedia"}

\* the statements of the script between BEGIN and COMMIT, in order
Script ==
    <<Statement("drop", Objects("view", {"farmer_dashboard_summary", "market_price_trends",
                                         "seasonal_crop_performance"})),
      Statement("drop", Objects("table",
          {"sensor_readings", "iot_sensors", "field_activities", "crop_cycles", "fields",
           "soil_analysis", "disease_reports", "market_prices", "schemes", "encyclopedia",
           "weather_data", "cropsap_alerts", "district_statistics", "scheme_categories",
           "crop_categories", "farmers", "farmer_profiles"})),
      Statement("drop", Objects("sequence", {"field_code_seq"})),
      Statement("drop", Objects("function", {"update_updated_at_column", "generate_farmer_code",
                                             "get_crop_season", "calculate_soil_health_score"})),
      Statement("drop", Objects("type", {"crop_status_enum", "soil_type_enum",
                    "irrigation_type_enum", "weather_condition_enum", "season_enum"})),
      Statement("drop", Objects("domain", {"positive_decimal", "phone_number", "email_address",
                                           "land_size_hectares"})),
      Statement("create if not exists", Objects("extension",
          {"uuid-ossp", "pgcrypto", "pg_trgm", "btree_gin", "btree_gist"})),
      Statement("create", Objects("type", {"crop_status_enum", "soil_type_enum",
                    "irrigation_type_enum", "weather_condition_enum", "season_enum"})),
      Statement("create", Objects("domain", {"positive_decimal", "phone_number", "email_address",
                                             "land_size_hectares"})),
      Statement("create or replace", Objects("function", {"update_updated_at_column",
                                                          "calculate_soil_health_score"})),
      Statement("create", Objects("table", V2Tables)),
      Statement("create", ObjectsOn("index", V2Tables)),
      Statement("create", ObjectsOn("policy", V2Tables)),
      Statement("create", ObjectsOn("trigger", {"farmer_profiles", "fields", "crop_cycles"})),
      SeedStatement>>

\* the database after one statement, or the error the statement raises: CREATE
\* of an object that exists is an error, DROP ... IF EXISTS ... CASCADE removes
\* the objects and what is on the dropped tables, ON CONFLICT DO NOTHING keeps
\* the rows that are there
Execute(statement, objects) ==
    LET dropped == {object.name : object \in {o \in statement.objects : o.kind = "table"}}
    IN  IF ~statement.parses THEN [error |-> TRUE, objects |-> objects]
        ELSE IF statement.op = "drop"
        THEN [error |-> FALSE,
              objects |-> {o \in objects : o \notin statement.objects /\ o.on \notin dropped}]
        ELSE IF statement.op = "create" /\ statement.objects \cap objects # {}
        THEN [error |-> TRUE, objects |-> objects]
        ELSE [error |-> FALSE, objects |-> objects \cup statement.objects]

\* the statements from the i-th on: the first error ends the run
RECURSIVE RunFrom(_, _)
RunFrom(i, objects) ==
    IF i > Len(Script) THEN [ok |-> TRUE, at |-> 0, objects |-> objects]
    ELSE LET done == Execute(Script[i], objects)
         IN  IF done.error THEN [ok |-> FALSE, at |-> i, objects |-> objects]
             ELSE RunFrom(i + 1, done.objects)

\* One run of the script: BEGIN, the statements, COMMIT.  An error leaves the
\* transaction aborted, and it is rolled back; a client that has the server
\* parse the whole text first executes nothing.  Either way the database is as
\* it was.
RunScript ==
    LET run == RunFrom(1, database)
    IN  /\ scriptRuns < MaxRuns
        /\ scriptRuns' = scriptRuns + 1
        /\ database' = IF run.ok THEN run.objects ELSE database
        /\ scriptResult' = [ok |-> run.ok, at |-> run.at]
        /\ UNCHANGED <<marketVars, districtVars, soilVars, cycleVars, seedVars, profileVars,
                       fieldVars, requests>>

-----------------------------------------------------------------------------
(* The profile requests: src/app/api/profile/route.ts.  A handler is a      *)
(* sequence of awaits; each await is a step of the model.                   *)

NoUser == NoText         \* auth() found no session: userId is null

\* data: null of maybeSingle()
NoProfile == [user_id |-> NoText, full_name |-> NoText, irrigation |-> NoText]

\* the body a GET request carries
NoBody == [json |-> TRUE, user_id |-> NoText, full_name |-> NoText, irrigation |-> NoText]

\* the object POST hands to upsert (lines 40-53): the owner is the session's
\* user, whatever the body says
ProfileRowOfBody(userId, payload) ==
    [user_id |-> IF payload.user_id # NoText THEN payload.user_id ELSE userId,
     full_name |-> payload.full_name, irrigation |-> payload.irrigation]
ProfileRow(userId, payload) ==
    [user_id |-> userId, full_name |-> payload.full_name, irrigation |-> payload.irrigation]

\* .eq("user_id", userId)
OwnedBy(table, userId) == {row \in table : row.user_id = userId}

\* .maybeSingle(): no row is data null, one row is that row, more are an error
MaybeSingle(rows) ==
    IF rows = {} THEN [error |-> FALSE, data |-> NoProfile]
    ELSE IF Cardinality(rows) = 1 THEN [error |-> FALSE, data |-> CHOOSE row \in rows : TRUE]
    ELSE [error |-> TRUE, data |-> NoProfile]

\* upsert(row, { onConflict: "user_id" }) on user_id ... not null unique: the row
\* that holds the user_id is replaced, or the row is added
UpsertProfile(table, row) == (table \ OwnedBy(table, row.user_id)) \cup {row}

Unauthorized == [status |-> 401, error |-> "Unauthorized"]
ProfileSuccess(data) == [status |-> 200, success |-> TRUE, profile |-> data]

\* a request arrives; the handler has done nothing yet
ReceiveProfileRequest(method, userId, body) ==
    /\ profileRequest.pc \in {"idle", "done"}
    /\ method = "GET" => body = NoBody
    /\ profileRequest' = [method |-> method, userId |-> userId, body |-> body,
                          pc |-> "auth", bodyRead |-> FALSE, repoCalls |-> 0]
    /\ profileResponse' = NoResponse
    /\ UNCHANGED <<farmer_profiles, marketVars, districtVars, soilVars, cycleVars, seedVars,
                   fieldVars, requests, schemaVars>>

\* where the handler goes after const { userId } = await auth()
AfterAuthPostFirst(method, userId) ==
    IF method = "POST" THEN "body"
    ELSE IF userId = NoUser THEN "reject" ELSE "select"
AfterAuth(method, userId) ==
    IF userId = NoUser THEN "reject"
    ELSE IF method = "POST" THEN "body" ELSE "select"

\* await auth(); if (!userId) return 401
Authenticate ==
    LET next == AfterAuth(profileRequest.method, profileRequest.userId)
    IN  /\ profileRequest.pc = "auth"
        /\ profileRequest' = [profileRequest EXCEPT
                                 !.pc = IF next = "reject" THEN "done" ELSE next]
        /\ profileResponse' = IF next = "reject" THEN Unauthorized ELSE profileResponse
        /\ UNCHANGED <<farmer_profiles, marketVars, districtVars, soilVars, cycleVars,
                       seedVars, fieldVars, requests, schemaVars>>

\* const payload = await request.json(): a body that is not JSON throws, and the
\* catch answers 500
ReadBody ==
    /\ profileRequest.pc = "body"
    /\ profileRequest' = [profileRequest EXCEPT
                             !.bodyRead = TRUE,
                             !.pc = IF profileRequest.body.json THEN "upsert" ELSE "done"]
    /\ profileResponse' = IF profileRequest.body.json THEN profileResponse
                          ELSE ErrorResponse("Internal server error")
    /\ UNCHANGED <<farmer_profiles, marketVars, districtVars, soilVars, cycleVars, seedVars,
                   fieldVars, requests, schemaVars>>

\* GET: the select of line 13.  answer is what the repository does with it:
\* "ok", "error", or "hidden" when a row policy lets the client see no row.
SelectProfile(answer) ==
    LET visible == IF answer = "hidden" THEN {} ELSE farmer_profiles
        found == MaybeSingle(OwnedBy(visible, profileRequest.userId))
    IN  /\ profileRequest.pc = "select"
        /\ profileRequest' = [profileRequest EXCEPT !.repoCalls = @ + 1, !.pc = "done"]
        /\ profileResponse' = IF answer = "error" \/ found.error
                              THEN ErrorResponse("Failed to fetch profile")
                              ELSE ProfileSuccess(found.data)
        /\ UNCHANGED <<farmer_profiles, marketVars, districtVars, soilVars, cycleVars,
                       seedVars, fieldVars, requests, schemaVars>>

\* POST: the upsert of lines 37-57.  The repository refuses the row ("error":
\* a constraint, a policy, a column it does not have, a failed call) or stores it;
\* a null user_id is always refused.
SaveProfile(answer) ==
    LET row == ProfileRow(profileRequest.userId, profileRequest.body)
        error == answer = "error" \/ row.user_id = NoText
    IN  /\ profileRequest.pc = "upsert"
        /\ profileRequest' = [profileRequest EXCEPT !.repoCalls = @ + 1, !.pc = "done"]
        /\ farmer_profiles' = IF error THEN farmer_profiles
                              ELSE UpsertProfile(farmer_profiles, row)
        /\ profileResponse' = IF error THEN ErrorResponse("Failed to save profile")
                              ELSE ProfileSuccess(row)
        /\ UNCHANGED <<marketVars, districtVars, soilVars, cycleVars, seedVars, fieldVars,
                       requests, schemaVars>>

-----------------------------------------------------------------------------
(* fields: src/scripts/V2_create_fresh_database.sql *)

soil_type_enum ==
    {"clay", "sandy", "loamy", "silt", "peaty", "chalky", "black", "red", "alluvial"}
irrigation_type_enum ==
    {"drip", "sprinkler", "flood", "center_pivot", "manual", "rainfed"}

\* a text given for a column of an enum type is one of the labels, letter for
\* letter, or the statement fails; the columns are nullable
EnumAccepts(labels, value) == value = NoText \/ value \in labels

\* INSERT INTO fields (farmer_id, field_name, soil_type, irrigation_method)
InsertField(soil_type, irrigation_method) ==
    LET ok == EnumAccepts(soil_type_enum, soil_type)
              /\ EnumAccepts(irrigation_type_enum, irrigation_method)
        row == [field_name |-> "North plot", soil_type |-> soil_type,
                irrigation_method |-> irrigation_method]
    IN  /\ fieldResult.op = "none"          \* the behaviour follows one statement
        /\ fields' = IF ok THEN Append(fields, row) ELSE fields
        /\ fieldResult' = [op |-> "insert", ok |-> ok, row |-> row]
        /\ UNCHANGED <<marketVars, districtVars, soilVars, cycleVars, seedVars, profileVars,
                       requests, schemaVars>>

-----------------------------------------------------------------------------
(* The inputs of the model *)

SeqsUpTo(S, n) == UNION {[1..k -> S] : k \in 0..n}

\* rows whose prices range over every step of the modal, max, min fallback
TrendRows ==
    [crop_name : {"rice"}, commodity : {NoText}, state : {"MH"},
     modal_price : {NoNum, 48, 49, 50}, max_price : {0, 49}, min_price : {NoNum, 50},
     price_per_quintal : {NoNum}]

\* rows whose series keys vary: with and without the alternate identifier
SeriesRows ==
    [crop_name : {"rice", "wheat"}, commodity : {NoText, "c1", "c2"}, state : {"MH"},
     modal_price : {49, 50}, max_price : {NoNum}, min_price : {NoNum},
     price_per_quintal : {NoNum}]

\* rows whose crop names vary, with the texts a JavaScript object treats
\* specially as a key among them
GroupRows ==
    [crop_name : {"rice", "wheat", "10", "2", "constructor", NoText}, commodity : {NoText},
     state : {"MH"}, modal_price : {48, 50}, max_price : {NoNum}, min_price : {NoNum},
     price_per_quintal : {40}]

StatRows ==
    [state : {"Maharashtra"}, district : {"Pune"}, taluka : {"Haveli"}, crop : {"Rice"},
     recorded_year : {2024},
     area_ha : {NoNum, 100}, production_mt : {NoNum, 250}, yield_mt_per_ha : {NoNum, 10},
     rainfall_mm : {0, 700}, irrigation_coverage_percent : {NoNum, 40}]

CropParams == {NoText, "ric"}
StateParams == {NoText, "goa"}
LimitParams == {NoNum, 2}
Answers == {"rows", "null", "error"}

DistrictParams == {NoText, "pun", "nashik"}
YearParams == {NoText, "2024", "2023", "abc"}
StatLimitParams == {NoNum, 1}

PhValues == {NoNum, 40, 59, 60, 65, 75, 76}
NitrogenValues == {50, 199, 200, 300, 400, 401}
PhosphorusValues == {5, 19, 20, 40, 60, 61}
PotassiumValues == {50, 149, 150, 200, 300, 301}
OrganicValues == {NoNum, 3, 9, 10, 19, 20, 25}

\* records of the seed file: with and without a district, and with an irrigation
\* coverage that is absent, on a boundary, inside and outside [0, 100]
SeedRecords ==
    [district : {"Pune", NoText}, taluka : {"Haveli"}, crop : {"Rice"},
     recorded_year : {2024}, area_ha : {100}, production_mt : {250},
     yield_mt_per_ha : {NoNum}, rainfall_mm : {700},
     irrigation_coverage_percent : {NoNum, 0, 100, 150}]

\* tables the side-by-side calls read
RicePrice(modal_price) ==
    [crop_name |-> "rice", commodity |-> NoText, state |-> "MH", modal_price |-> modal_price,
     max_price |-> NoNum, min_price |-> NoNum, price_per_quintal |-> NoNum]
StoredPrices == {<<>>, <<RicePrice(50), RicePrice(48)>>}
StoredStats ==
    {<<>>,
     <<[state |-> "Maharashtra", district |-> "Pune", taluka |-> "Haveli", crop |-> "Rice",
        recorded_year |-> 2024, area_ha |-> 100, production_mt |-> 250,
        yield_mt_per_ha |-> 10, rainfall_mm |-> 700, irrigation_coverage_percent |-> 40]>>}
RequestKinds == {"market", "district"}
RequestFilters == {NoText, "nashik"}
RequestLimits == {NoNum, 1}

\* objects of the older schema (src/scripts/run_all_migrations.sql), some on the
\* cleanup list of the script and some not
OlderObjects ==
    Objects("table", {"farmers", "encyclopedia", "farmer_profiles", "district_statistics",
                      "crops"})
    \cup {Object("index", "idx_district_statistics_district", "district_statistics"),
          Object("row", "Wheat", "encyclopedia")}

Users == {"alice", "bob"}

\* bodies of a profile save: JSON or not, naming an owner of their own or not
ProfileBodies ==
    [json : {TRUE}, user_id : {NoText, "bob"}, full_name : {"A", "B"},
     irrigation : {NoText, "drip", "volcanic"}]
    \cup {[json |-> FALSE, user_id |-> NoText, full_name |-> NoText, irrigation |-> NoText]}

\* bodies that differ in the irrigation value alone
IrrigationBodies ==
    [json : {TRUE}, user_id : {NoText}, full_name : {"A"},
     irrigation : {"drip", "center_pivot", "center-pivot", "volcanic"}]

\* texts written to the categorical columns of fields: every label of the enum
\* types, the labels of the specification, and texts outside both
SoilTexts == soil_type_enum \cup {NoText, "volcanic", "Clay"}
IrrigationTexts == irrigation_type_enum \cup {NoText, "center-pivot", "canal"}

PlantingDates == {100, 300}
HarvestDates == {220, 500}
CycleStatuses == {"planted", "harvested"}

-----------------------------------------------------------------------------
(* Specifications *)

\* A handler keeps no state between requests: a behaviour follows one request of
\* each kind against the stored rows it starts with.
NoStatement == SqlAnswer("none", FALSE, TRUE, <<>>)

NoProfileRequest ==
    [method |-> "GET", userId |-> NoUser, body |-> NoBody, pc |-> "idle",
     bodyRead |-> FALSE, repoCalls |-> 0]

\* the tables the query handlers do not read start empty
StoresEmpty ==
    /\ crop_cycles = <<>>
    /\ cycleResult = NoStatement
    /\ seedPayload = <<>>
    /\ seedOutcome = NotRun
    /\ farmer_profiles = {}
    /\ profileRequest = NoProfileRequest
    /\ profileResponse = NoResponse
    /\ fields = <<>>
    /\ fieldResult = [op |-> "none", ok |-> TRUE, row |-> <<>>]
    /\ requests = [r \in Requests |-> IdleRequest]
    /\ scriptRuns = 0
    /\ scriptResult = [ok |-> TRUE, at |-> 0]

\* the tables the handlers read, over a database that holds the given objects
InitOver(prices, stats, sample, objects) ==
    /\ database = objects
    /\ market_prices = prices
    /\ pricesData = NullData
    /\ marketResponse = NoResponse
    /\ district_statistics = stats
    /\ statsData = NullData
    /\ districtResponse = NoResponse
    /\ soil_sample = sample
    /\ soil_score = 0
    /\ StoresEmpty

\* the same over a database without objects
InitWith(prices, stats, sample) == InitOver(prices, stats, sample, {})

DefaultSample == SoilSample(65, 300, 40, 200, 25)

Init == InitWith(<<>>, <<>>, DefaultSample)

MarketRequest ==
    \E crop \in CropParams, state \in StateParams, limit \in LimitParams, answer \in Answers :
        MarketGET(crop, state, limit, answer)

DistrictRequest ==
    \E district \in DistrictParams, year \in YearParams, limit \in StatLimitParams,
       answer \in Answers :
        DistrictGET(district, NoText, NoText, year, limit, answer)

SoilRequest == ScoreSoil

\* the market price query over price histories of one commodity
InitTrend == \E prices \in SeqsUpTo(TrendRows, MaxTrendRows) : InitWith(prices, <<>>, DefaultSample)
SpecTrend == InitTrend /\ [][MarketRequest]_vars

\* the market price query over several series
InitSeries == \E prices \in SeqsUpTo(SeriesRows, MaxSeriesRows) : InitWith(prices, <<>>, DefaultSample)
SpecSeries == InitSeries /\ [][MarketRequest]_vars

\* the market price query over the crop names to group
InitGroup == \E prices \in SeqsUpTo(GroupRows, MaxSeriesRows) : InitWith(prices, <<>>, DefaultSample)
SpecGroup == InitGroup /\ [][MarketRequest]_vars

\* the regional statistics query
InitDistrict == \E stats \in SeqsUpTo(StatRows, MaxStatRows) : InitWith(<<>>, stats, DefaultSample)
SpecDistrict == InitDistrict /\ [][DistrictRequest]_vars

\* the soil health score
InitSoil ==
    \E ph \in PhValues, n \in NitrogenValues, p \in PhosphorusValues,
       k \in PotassiumValues, om \in OrganicValues :
        InitWith(<<>>, <<>>, SoilSample(ph, n, p, k, om))
SpecSoil == InitSoil /\ [][SoilRequest]_vars

\* the statements on crop_cycles
CycleStatement ==
    \/ \E d \in PlantingDates \cup {NoNum}, h \in HarvestDates \cup {Keep} :
           InsertCycle(d, h)
    \/ \E i \in 1..MaxCycles, d \in PlantingDates \cup {Keep, NoNum},
          s \in CycleStatuses \cup {KeepText}, h \in HarvestDates \cup {Keep} :
           UpdateCycle(i, d, s, h)
    \/ SelectCycles
SpecCycles == Init /\ [][CycleStatement]_vars

\* a run of the seed script over a table that holds some rows already
SeedRun ==
    \E file \in {"readable", "unreadable"}, payload \in SeqsUpTo(SeedRecords, MaxBatch),
       credentials \in BOOLEAN, reachable \in BOOLEAN :
        seedDistrictStats(file, payload, credentials, reachable)
InitSeed == \E stats \in SeqsUpTo(StatRows, 1) : InitWith(<<>>, stats, DefaultSample)
SpecSeed == InitSeed /\ [][SeedRun]_vars

\* the steps of the profile requests of callers with and without a session
ProfileStep(bodies) ==
    \/ \E method \in {"GET", "POST"}, userId \in Users \cup {NoUser}, body \in bodies \cup {NoBody} :
           ReceiveProfileRequest(method, userId, body)
    \/ Authenticate
    \/ ReadBody
    \/ \E answer \in {"ok", "error", "hidden"} : SelectProfile(answer)
    \/ \E answer \in {"ok", "error"} : SaveProfile(answer)
SpecProfile == Init /\ [][ProfileStep(ProfileBodies)]_vars

\* the writes of categorical values: a row of fields, and profile saves
FieldStatement ==
    \E soil_type \in SoilTexts, irrigation_method \in IrrigationTexts :
        InsertField(soil_type, irrigation_method)
CategoryWrite ==
    \/ FieldStatement
    \/ \E body \in IrrigationBodies : ReceiveProfileRequest("POST", "alice", body)
    \/ Authenticate
    \/ ReadBody
    \/ \E answer \in {"ok", "error"} : SaveProfile(answer)
SpecCategories == Init /\ [][CategoryWrite]_vars

\* the steps of the calls that run side by side, in any order
RequestStep ==
    \E r \in Requests :
        \/ \E kind \in RequestKinds, filter \in RequestFilters, limit \in RequestLimits :
               EnterRequest(r, kind, filter, limit)
        \/ SendQuery(r)
        \/ \E answer \in Answers : AnswerQuery(r, answer)
InitRequests ==
    \E prices \in StoredPrices, stats \in StoredStats : InitWith(prices, stats, DefaultSample)
SpecRequests == InitRequests /\ [][RequestStep]_vars

\* runs of the schema script on a new database and on one that holds objects of
\* the older schema
InitSchema ==
    \E objects \in SUBSET OlderObjects :
        /\ \A object \in objects :
               object.on # NoText => Object("table", object.on, NoText) \in objects
        /\ InitOver(<<>>, <<>>, DefaultSample, objects)
SpecSchema == InitSchema /\ [][RunScript]_vars

Next ==
    \/ MarketRequest \/ DistrictRequest \/ SoilRequest \/ CycleStatement \/ SeedRun
    \/ ProfileStep(ProfileBodies) \/ FieldStatement \/ RequestStep \/ RunScript
Spec == Init /\ [][Next]_vars

-----------------------------------------------------------------------------
(* Properties of the market price query *)

MarketOk == marketResponse.status = 200

\* the annotated records of the response
Reported == IF MarketOk THEN marketResponse.prices ELSE <<>>

Positions == 1..Len(Reported)

\* the price the spec reads from a record: modal, else max, else min, else 0
FallbackPrice(r) ==
    LET present == <<r.modal_price, r.max_price, r.min_price>>
        usable == {k \in 1..3 : present[k] # NoNum /\ present[k] # 0}
    IN  IF usable = {} THEN 0
        ELSE present[CHOOSE k \in usable : \A m \in usable : k <= m]

\* the record an observation is compared with: the first later one with an equal
\* commodity name or an equal alternate identifier (0 if none)
ComparisonOf(i) ==
    LET later == {j \in Positions : j > i /\ (\/ Reported[j].crop_name = Reported[i].crop_name
                                             \/ Reported[j].commodity = Reported[i].commodity)}
    IN  IF later = {} THEN 0 ELSE CHOOSE j \in later : \A m \in later : j <= m

Current(i) == FallbackPrice(Reported[i])
Previous(i) == IF ComparisonOf(i) = 0 THEN 0 ELSE FallbackPrice(Reported[ComparisonOf(i)])

Abs(x) == IF x < 0 THEN 0 - x ELSE x

\* t tenths is num / den rounded to one decimal place (a tie away from zero)
IsRoundedToTenth(t, num, den) ==
    /\ 2 * Abs(10 * num - t * den) <= den
    /\ (2 * Abs(10 * num - t * den) = den => Abs(t * den) > Abs(10 * num))

\* the reported change percent is (current - previous) / previous * 100 to one decimal
PercentIsRounded(i) ==
    IsRoundedToTenth(Reported[i].change_percent, (Current(i) - Previous(i)) * 100, Previous(i))

\* C1, as stated: for every annotated observation whose comparison record has a
\* positive previous price, the reported change percent is the percent change
\* rounded to one decimal place, and the trend is "up" iff the REPORTED change
\* percent is > 2, "down" iff it is < -2, "stable" otherwise.
C1_TrendFromReportedPercent ==
    \A i \in Positions :
        (ComparisonOf(i) # 0 /\ Previous(i) > 0) =>
            /\ PercentIsRounded(i)
            /\ Reported[i].trend =
                 (IF Reported[i].change_percent > 20 THEN "up"
                  ELSE IF Reported[i].change_percent < 0 - 20 THEN "down"
                  ELSE "stable")

\* C1, amended: the reported change percent is the percent change rounded to one
\* decimal place, and the trend is "up" iff the UNROUNDED percent change
\* (current - previous) / previous * 100 is > 2, "down" iff it is < -2, "stable"
\* otherwise.
C1_TrendFromExactPercent ==
    \A i \in Positions :
        (ComparisonOf(i) # 0 /\ Previous(i) > 0) =>
            /\ PercentIsRounded(i)
            /\ Reported[i].trend =
                 (IF 100 * (Current(i) - Previous(i)) > 2 * Previous(i) THEN "up"
                  ELSE IF 100 * (Current(i) - Previous(i)) < 0 - 2 * Previous(i) THEN "down"
                  ELSE "stable")

\* C1 witness: a rise of 50 over 49 (2.04 percent) is reported as 2.0 and
\* labelled "up"
C1_Witness ==
    \E i \in Positions :
        /\ Current(i) = 50 /\ Previous(i) = 49
        /\ Reported[i].change_percent = 20 /\ Reported[i].trend = "up"

\* C3: whenever the previous price of the comparison record (modal, else max,
\* else min, else 0) is 0, the observation is annotated "stable", change percent
\* 0 and change amount 0, whatever its current price is.
C3_ZeroPreviousIsStable ==
    \A i \in Positions :
        (ComparisonOf(i) # 0 /\ Previous(i) = 0) =>
            /\ Reported[i].trend = "stable"
            /\ Reported[i].change_percent = 0
            /\ Reported[i].change_amount = 0

\* C3 witness: an observation priced 50 compared with a record that has no price
C3_Witness ==
    \E i \in Positions :
        /\ ComparisonOf(i) # 0 /\ Previous(i) = 0 /\ Current(i) = 50
        /\ Reported[i].trend = "stable"

\* C4, as stated: the change amount of every annotated observation is
\* round(current * changePercent / 100), current being the modal, else max, else
\* min, else 0 price and changePercent the reported one-decimal change percent.
C4_AmountFromFallbackPrice ==
    \A i \in Positions :
        Reported[i].change_amount = MathRound(Current(i) * Reported[i].change_percent, 1000)

\* two records are of the same series: they carry the same commodity name, or
\* the same alternate commodity identifier
SameSeries(a, b) ==
    \/ (a.crop_name # NoText /\ a.crop_name = b.crop_name)
    \/ (a.commodity # NoText /\ a.commodity = b.commodity)

\* the first later record of the same series (0 if none)
SeriesPredecessor(i) ==
    LET later == {j \in Positions : j > i /\ SameSeries(Reported[j], Reported[i])}
    IN  IF later = {} THEN 0 ELSE CHOOSE j \in later : \A m \in later : j <= m

\* the annotation of record i is the one a comparison with record j gives
AnnotatedAgainst(i, j) ==
    LET cur == FallbackPrice(Reported[i])
        prev == FallbackPrice(Reported[j])
    IN  IF prev > 0
        THEN /\ IsRoundedToTenth(Reported[i].change_percent, (cur - prev) * 100, prev)
             /\ Reported[i].trend =
                  (IF 100 * (cur - prev) > 2 * prev THEN "up"
                   ELSE IF 100 * (cur - prev) < 0 - 2 * prev THEN "down"
                   ELSE "stable")
        ELSE Reported[i].trend = "stable" /\ Reported[i].change_percent = 0

\* C2, as stated: every observation, also one on which the commodity name or the
\* alternate identifier is absent, is compared with the first later record of
\* its own series; when there is none (a series of one observation, the last
\* record) it is annotated "stable", change percent 0, change amount 0.
C2_ComparedWithinSeries ==
    \A i \in Positions :
        IF SeriesPredecessor(i) = 0
        THEN /\ Reported[i].trend = "stable"
             /\ Reported[i].change_percent = 0
             /\ Reported[i].change_amount = 0
        ELSE AnnotatedAgainst(i, SeriesPredecessor(i))

\* C7: when the repository answers without error with an empty or null record
\* set, the response is a success with an empty record list, an empty grouping
\* and all six market aggregates 0.
C7_EmptyIsSuccess ==
    (/\ marketResponse # NoResponse
     /\ ~pricesData.error
     /\ (pricesData.isNull \/ pricesData.rows = <<>>)) =>
        /\ marketResponse.status = 200
        /\ marketResponse.prices = <<>>
        /\ marketResponse.grouped_prices.keys = <<>>
        /\ marketResponse.market_stats =
             [total_crops |-> 0, price_increases |-> 0, price_decreases |-> 0,
              avg_price |-> 0, highest_price |-> 0, lowest_price |-> 0]

\* C7 witness: rows are stored, the filters match none of them, and the answer
\* is a success
C7_Witness ==
    /\ market_prices # <<>>
    /\ ~pricesData.error /\ ~pricesData.isNull /\ pricesData.rows = <<>>
    /\ marketResponse.status = 200

\* the key under which the grouping lists a record: its commodity name
NameOf(r) == IF r.crop_name = NoText THEN "undefined" ELSE r.crop_name

\* the position at which a commodity name first occurs among the records
FirstSeen(name) ==
    CHOOSE i \in Positions :
        /\ NameOf(Reported[i]) = name
        /\ \A j \in Positions : NameOf(Reported[j]) = name => i <= j

IsOf(name, r) == NameOf(r) = name

\* C8, as stated: the grouping lists its keys in the order in which each first
\* occurs among the annotated records, each group lists its records in their
\* order in that sequence, and every record is in exactly one group, that of its
\* own commodity name.
C8_GroupsInFirstSeenOrder ==
    MarketOk =>
        LET keys == marketResponse.grouped_prices.keys
            vals == marketResponse.grouped_prices.vals
        IN  /\ {keys[k] : k \in 1..Len(keys)} = {NameOf(Reported[i]) : i \in Positions}
            /\ \A a, b \in 1..Len(keys) : a < b => FirstSeen(keys[a]) < FirstSeen(keys[b])
            /\ \A k \in 1..Len(keys) :
                  vals[k] = SelectSeq(Reported, LAMBDA r : IsOf(keys[k], r))

\* C9: the commodity count is the number of distinct commodity names among the
\* annotated records, the increase count the number of records with trend "up",
\* the decrease count the number with trend "down"; so increases + decreases and
\* the commodity count never exceed the number of records.
C9_CountsMatchRecords ==
    MarketOk =>
        LET stats == marketResponse.market_stats
        IN  /\ stats.total_crops = Cardinality({Reported[i].crop_name : i \in Positions})
            /\ stats.price_increases = Cardinality({i \in Positions : Reported[i].trend = "up"})
            /\ stats.price_decreases = Cardinality({i \in Positions : Reported[i].trend = "down"})
            /\ stats.price_increases + stats.price_decreases <= Len(Reported)
            /\ stats.total_crops <= Len(Reported)

\* C9 witness: three records of two commodities, one rising and one falling
C9_Witness ==
    /\ MarketOk /\ Len(Reported) = 3
    /\ marketResponse.market_stats.total_crops = 2
    /\ marketResponse.market_stats.price_increases = 1
    /\ marketResponse.market_stats.price_decreases = 1

-----------------------------------------------------------------------------
(* Properties of the regional statistics query *)

StatsOk == districtResponse.status = 200

Returned == statsData.rows

\* the sum of a measure over the rows at the positions in S, an absent value
\* counting as 0
RECURSIVE Total(_, _)
Total(S, field) ==
    IF S = {} THEN 0
    ELSE LET i == CHOOSE k \in S : TRUE
             v == Measure(Returned[i], field)
         IN  (IF v = NoNum THEN 0 ELSE v) + Total(S \ {i}, field)

AllReturned == 1..Len(Returned)

\* q is the quotient sum / count
IsQuotient(q, sum, count) == q.den > 0 /\ q.num * count = sum * q.den

\* C5: over a non-empty returned record set, each average is the sum of the
\* field over all returned records, an absent value counting as 0, divided by
\* the number of all returned records; the totals are the sums, an absent value
\* counting as 0.
C5_AveragesOverAllRecords ==
    (StatsOk /\ ~statsData.isNull /\ Len(Returned) > 0) =>
        LET agg == districtResponse.aggregates
            n == Len(Returned)
        IN  /\ ~agg.isNull
            /\ agg.totalArea = Total(AllReturned, "area_ha")
            /\ agg.totalProduction = Total(AllReturned, "production_mt")
            /\ IsQuotient(agg.avgYield, Total(AllReturned, "yield_mt_per_ha"), n)
            /\ IsQuotient(agg.avgRainfall, Total(AllReturned, "rainfall_mm"), n)
            /\ IsQuotient(agg.avgIrrigationCoverage,
                          Total(AllReturned, "irrigation_coverage_percent"), n)

\* C5 witness: two records with yield 10 and an absent yield, reported average 5
C5_Witness ==
    /\ StatsOk /\ ~statsData.isNull /\ Len(Returned) = 2
    /\ {Returned[1].yield_mt_per_ha, Returned[2].yield_mt_per_ha} = {10, NoNum}
    /\ IsQuotient(districtResponse.aggregates.avgYield, 5, 1)

\* no record matched the filters: the repository answered with an empty list
NoneMatched == StatsOk /\ ~statsData.isNull /\ Returned = <<>>

\* C6, as stated: when zero records match the filters the aggregates are null
\* (not an object of zero values), the record list is empty and the count is 0.
C6_NullAggregatesWhenNoneMatch ==
    NoneMatched =>
        /\ districtResponse.aggregates.isNull
        /\ districtResponse.stats = RowsData(<<>>)
        /\ districtResponse.count = 0

IsZero(q) == q.den > 0 /\ q.num = 0

\* C6, amended: when zero records match the filters (the repository answers
\* with an empty list) the aggregates are an object whose five values are 0,
\* the record list is empty and the count is 0; the aggregates are null only
\* when the repository answers with null data, and then the record list is null
\* and the count is 0.
C6_ZeroAggregatesWhenNoneMatch ==
    /\ NoneMatched =>
          /\ ~districtResponse.aggregates.isNull
          /\ districtResponse.aggregates.totalArea = 0
          /\ districtResponse.aggregates.totalProduction = 0
          /\ IsZero(districtResponse.aggregates.avgYield)
          /\ IsZero(districtResponse.aggregates.avgRainfall)
          /\ IsZero(districtResponse.aggregates.avgIrrigationCoverage)
          /\ districtResponse.stats = RowsData(<<>>)
          /\ districtResponse.count = 0
    /\ StatsOk =>
          (districtResponse.aggregates.isNull <=> statsData.isNull)
    /\ (StatsOk /\ statsData.isNull) =>
          /\ districtResponse.stats = NullData
          /\ districtResponse.count = 0

\* C6 witness: rows are stored and the filters match none of them
C6_Witness ==
    /\ district_statistics # <<>>
    /\ NoneMatched
    /\ ~districtResponse.aggregates.isNull

-----------------------------------------------------------------------------
(* Properties of the soil health score *)

InRange(v, lo, hi) == v # NoNum /\ lo <= v /\ v <= hi

PhPart == IF InRange(soil_sample.ph, 60, 75) THEN 40 ELSE 10

\* the minimum of the three nutrient parts: 20 only when every nutrient is in range
WeakestNutrientPart ==
    IF /\ InRange(soil_sample.nitrogen, 200, 400)
       /\ InRange(soil_sample.phosphorus, 20, 60)
       /\ InRange(soil_sample.potassium, 150, 300)
    THEN 20 ELSE 10

OrganicPart ==
    IF soil_sample.organic_matter = NoNum THEN 5
    ELSE IF soil_sample.organic_matter >= 20 THEN 20
    ELSE IF soil_sample.organic_matter >= 10 THEN 15
    ELSE 5

\* C10: for every soil sample, also one without organic matter, the score is
\* pHpart + min(Npart, Ppart, Kpart) + organicPart; it lies in [25, 80], with
\* score(6.5, 300, 40, 200, 2.5) = 80 and score(4.0, 50, 5, 50, 0.3) = 25.
C10_SoilScoreFormula ==
    soil_sample.scored =>
        /\ soil_score = PhPart + WeakestNutrientPart + OrganicPart
        /\ 25 <= soil_score /\ soil_score <= 80
        /\ soil_sample = [SoilSample(65, 300, 40, 200, 25) EXCEPT !.scored = TRUE]
              => soil_score = 80
        /\ soil_sample = [SoilSample(40, 50, 5, 50, 3) EXCEPT !.scored = TRUE]
              => soil_score = 25

\* C10 witness: a scored sample without organic matter in which potassium alone
\* is out of range
C10_Witness ==
    /\ soil_sample.scored
    /\ soil_sample.organic_matter = NoNum
    /\ InRange(soil_sample.ph, 60, 75)
    /\ InRange(soil_sample.nitrogen, 200, 400)
    /\ InRange(soil_sample.phosphorus, 20, 60)
    /\ ~InRange(soil_sample.potassium, 150, 300)
    /\ soil_score = 55

-----------------------------------------------------------------------------
(* Properties of crop_cycles *)

HarvestFollowsPlanting(row) ==
    row.expected_harvest_date = row.planting_date + 120

\* C11: whatever statements ran, every stored crop cycle, and every crop cycle a
\* read returned, has as expected harvest date its current planting date plus 120
\* days; and a statement that gives the expected harvest date a value of its own
\* is rejected and leaves crop_cycles as it was.
C11_HarvestIsPlantingPlus120 ==
    /\ [](/\ \A i \in DOMAIN crop_cycles : HarvestFollowsPlanting(crop_cycles[i])
          /\ \A i \in DOMAIN cycleResult.rows : HarvestFollowsPlanting(cycleResult.rows[i]))
    /\ [][cycleResult'.harvest_given => ~cycleResult'.ok /\ crop_cycles' = crop_cycles]_vars

\* two crop cycles were inserted and updates have moved the planting date of the
\* first and set its status: each expected harvest date follows its own planting
\* date
C11_Witness ==
    /\ cycleResult.op = "update" /\ cycleResult.ok
    /\ Len(crop_cycles) = 2
    /\ crop_cycles[1].planting_date = 300 /\ crop_cycles[1].expected_harvest_date = 420
    /\ crop_cycles[2].planting_date = 100 /\ crop_cycles[2].expected_harvest_date = 220
    /\ crop_cycles[1].status = "harvested"

-----------------------------------------------------------------------------
(* Properties of the ingestion of regional statistics *)

CoverageInRange(percent) == percent = NoNum \/ (0 <= percent /\ percent <= 100)

\* C12: every stored regional statistic that has an irrigation coverage has it
\* within [0, 100]; and a run that ingests a record whose irrigation coverage is
\* outside [0, 100] ends in an error that names the field, while the boundary
\* values alone never make a run fail.
C12_CoverageWithinRange ==
    /\ \A i \in DOMAIN district_statistics :
           CoverageInRange(district_statistics[i].irrigation_coverage_percent)
    /\ seedOutcome.ran /\ (\E i \in DOMAIN seedPayload :
                              ~CoverageInRange(seedPayload[i].irrigation_coverage_percent))
           => seedOutcome.code = 1 /\ seedOutcome.message = "irrigation_coverage_percent"

\* what the record model of the specification accepts: a district, and an
\* irrigation coverage within [0, 100] when there is one
ValidRecord(record) ==
    record.district # NoText /\ CoverageInRange(record.irrigation_coverage_percent)

\* C14: a run of the batch ingestion either ends without error, and then every
\* record of the batch is valid and all of them have been added to the stored
\* rows, or ends in error, and then the stored rows are what they were; a batch
\* with an invalid record ends in error.
C14_BatchAllOrNothing ==
    [][seedOutcome'.ran =>
          /\ seedOutcome'.code = 0 =>
                 /\ \A i \in DOMAIN seedPayload' : ValidRecord(seedPayload'[i])
                 /\ Len(district_statistics') = Len(district_statistics) + Len(seedPayload')
          /\ seedOutcome'.code # 0 => district_statistics' = district_statistics
          /\ (\E i \in DOMAIN seedPayload' : ~ValidRecord(seedPayload'[i]))
                 => seedOutcome'.code # 0]_vars

-----------------------------------------------------------------------------
(* Properties of the categorical columns *)

SoilTextures ==
    {"clay", "sandy", "loamy", "silt", "peaty", "chalky", "black", "red", "alluvial"}
IrrigationMethods ==
    {"drip", "sprinkler", "flood", "center-pivot", "manual", "rainfed"}

IsMember(category, value) == value = NoText \/ value \in category

\* C13: a write of a soil texture or an irrigation method is accepted exactly
\* when the value is a member of the category's closed set, and is then stored as
\* given; otherwise nothing is written.  This holds for a row of fields and for
\* the irrigation value of a saved profile.
C13_CategoricalWritesValidated ==
    /\ fieldResult.op = "insert" =>
           /\ fieldResult.ok <=> /\ IsMember(SoilTextures, fieldResult.row.soil_type)
                                 /\ IsMember(IrrigationMethods, fieldResult.row.irrigation_method)
           /\ fields = IF fieldResult.ok THEN <<fieldResult.row>> ELSE <<>>
    /\ \A row \in farmer_profiles : IsMember(IrrigationMethods, row.irrigation)
    /\ profileRequest.pc = "done" /\ ~IsMember(IrrigationMethods, profileRequest.body.irrigation)
           => profileResponse.status # 200

-----------------------------------------------------------------------------
(* Properties of the profile requests *)

\* C15: while the request in progress comes from a caller without identity, no
\* step reads its body, no step calls the repository and no step changes a stored
\* profile; and when the request is done its response is the unauthenticated
\* rejection.
C15_UnauthenticatedRejectedFirst ==
    [][profileRequest'.userId = NoText /\ profileRequest'.pc # "idle" =>
          /\ ~profileRequest'.bodyRead
          /\ profileRequest'.repoCalls = 0
          /\ farmer_profiles' = farmer_profiles
          /\ profileRequest'.pc = "done" =>
                 profileResponse'.status = 401 /\ profileResponse'.error = "Unauthorized"]_vars

\* a save request without identity, with a well-formed body, has been rejected
\* while profiles are stored
C15_Witness ==
    /\ profileRequest.method = "POST" /\ profileRequest.userId = NoText
    /\ profileRequest.body.json /\ profileRequest.body.full_name = "B"
    /\ profileRequest.pc = "done" /\ profileResponse.status = 401
    /\ farmer_profiles # {}

ProfilesOf(user) == {row \in farmer_profiles : row.user_id = user}

\* C18: at most one profile is stored per user; a read that succeeds returns no
\* profile or the stored profile whose owner is the caller; and a step of a
\* request adds, removes or replaces only rows whose owner is the caller.
C18_ProfileRestrictedToOwner ==
    /\ [](/\ \A row1 \in farmer_profiles, row2 \in farmer_profiles :
                 row1.user_id = row2.user_id => row1 = row2
          /\ profileRequest.method = "GET" /\ profileResponse.status = 200 =>
                 \/ profileResponse.profile.user_id = NoText
                 \/ /\ profileResponse.profile.user_id = profileRequest.userId
                    /\ profileResponse.profile \in farmer_profiles)
    /\ [][\A row \in (farmer_profiles' \ farmer_profiles) \cup (farmer_profiles \ farmer_profiles') :
              row.user_id = profileRequest.userId /\ row.user_id # NoText]_vars

\* alice and bob have a profile each, and alice has just saved hers with a body
\* that names bob as owner: bob's profile is the one bob saved
C18_Witness ==
    /\ profileRequest.method = "POST" /\ profileRequest.userId = "alice"
    /\ profileRequest.body.user_id = "bob" /\ profileRequest.body.full_name = "A"
    /\ profileRequest.pc = "done" /\ profileResponse.status = 200
    /\ ProfilesOf("alice") = {[user_id |-> "alice", full_name |-> "A", irrigation |-> "drip"]}
    /\ ProfilesOf("bob") = {[user_id |-> "bob", full_name |-> "B", irrigation |-> NoText]}

-----------------------------------------------------------------------------
(* Properties of the query requests that run side by side *)

ReadFailed(r) == requests[r].answer = "error"

\* C16: a regional statistics or market price request whose repository read
\* failed has returned: it has issued that one read and no other, its response is
\* an error, and the response holds nothing but the status and the error message
\* (no records, no annotations, no aggregates).
C16_FailedReadIsSurfaced ==
    \A r \in DOMAIN requests :
        ReadFailed(r) =>
            /\ requests[r].pc = "done"
            /\ requests[r].reads = 1
            /\ requests[r].response.status = 500
            /\ DOMAIN requests[r].response = {"status", "error"}

\* a market price request whose read failed has returned while a regional
\* statistics request succeeded
C16_Witness ==
    /\ requests[1].kind = "market" /\ ReadFailed(1)
    /\ requests[1].response.error = "Failed to fetch market prices"
    /\ requests[2].kind = "district" /\ requests[2].response.status = 200
    /\ requests[2].response.count = 1

\* the response of request r when it is the only request there is
AloneResponse(r) ==
    LET q == requests[r]
        rows == IF q.kind = "market"
                THEN MarketQuery(market_prices, q.filter, NoText, MarketLimit(q.limitParam))
                ELSE StatsQuery(district_statistics, q.filter, NoText, NoText, NoText,
                                StatsLimit(q.limitParam))
        data == IF q.answer = "rows" THEN RowsData(rows) ELSE NullData
    IN  IF q.answer = "error"
        THEN ErrorResponse(IF q.kind = "market" THEN "Failed to fetch market prices"
                           ELSE "Failed to fetch district statistics")
        ELSE IF q.kind = "market"
             THEN MarketSuccess(data, q.filter, NoText, MarketLimit(q.limitParam))
             ELSE StatsSuccess(data)

\* C17: however the steps of the requests interleave, a request that has
\* returned has issued exactly one repository read and no write, and its response
\* is the one it gives when it runs alone over the same tables; no step of a
\* request changes the tables or the locals of another request.
C17_RequestsAreIndependent ==
    /\ [](\A r \in DOMAIN requests :
              requests[r].pc = "done" =>
                  /\ requests[r].reads = 1 /\ requests[r].writes = 0
                  /\ requests[r].response = AloneResponse(r))
    /\ [][/\ market_prices' = market_prices /\ district_statistics' = district_statistics
          /\ \A r1 \in DOMAIN requests, r2 \in DOMAIN requests :
                 requests'[r1] # requests[r1] /\ requests'[r2] # requests[r2] => r1 = r2]_vars

\* the second request entered, read and returned its annotated prices while the
\* first, a regional statistics request with another filter, waits for its read
C17_Witness ==
    /\ requests[1].kind = "district" /\ requests[1].filter = "nashik"
    /\ requests[1].pc = "reading"
    /\ requests[2].kind = "market" /\ requests[2].filter = NoText
    /\ requests[2].pc = "done" /\ requests[2].response.status = 200
    /\ Len(requests[2].response.prices) = 2
    /\ requests[2].response.prices[1].trend = "up"

-----------------------------------------------------------------------------
(* Properties of the schema script *)

Has(kind, name) == \E object \in database : object.kind = kind /\ object.name = name

\* C19: a run of the schema script, on a new database or on one that holds
\* objects of an older schema, ends without error and leaves the tables of the
\* script and its two seed rows; and a run that follows a run leaves the database
\* as the run before it left it.
C19_ScriptIsIdempotent ==
    /\ [](scriptRuns > 0 =>
              /\ scriptResult.ok
              /\ \A table \in {"farmer_profiles", "fields", "crop_cycles", "market_prices",
                                "encyclopedia"} : Has("table", table)
              /\ Has("row", "Wheat") /\ Has("row", "Rice"))
    /\ [][scriptRuns > 0 /\ scriptRuns' > scriptRuns => database' = database]_vars

====
